---- MODULE Spec2Model ----
(***************************************************************************)
(* Job orchestration of ClipperStudio: one WorkspaceController with its    *)
(* job queue and worker thread (clipperstudio/workspace.py), the pipeline  *)
(* the worker runs for each job (clipperstudio/pipeline.py), the VideoJob  *)
(* record (clipperstudio/models.py) and the progress observer of the GUI   *)
(* (ClipperStudio_GUI.py, WorkspaceFrame), which receives the events on    *)
(* its own queue and drains them on the UI thread.                         *)
(*                                                                         *)
(* Threads: the worker, the UI thread (the observer's drain, stop()) and   *)
(* the threads calling submit().  Every action is one step of one thread   *)
(* between two accesses to shared state; calls to external collaborators   *)
(* (yt-dlp, ffprobe, ffmpeg, whisper, the filesystem) are a                *)
(* nondeterministic choice between returning and raising.                  *)
(***************************************************************************)
EXTENDS Integers, Sequences, FiniteSets, TLC

\* ------------------------------------------------------------------ bounds
MaxJobs == 2
MaxClips == 1
MaxPending == 1

\* controllers the registry constructs
MaxControllers == 2

\* jobs submitted through the registry's controllers, and the values the
\* 8 hex digits of a job identifier are drawn from
MaxSubmits == 2

\* longest source video handed to generate_clip_plan, in seconds
MaxDuration == 4

\* largest clip_duration, overlap, final_min, final_max handed to
\* generate_clip_plan, and largest publish interval, randomization range and
\* assigned delay, in seconds
MaxSetting == 3

\* the largest extent of a canvas or of a layer, in pixels
MaxExtent == 2

\* ------------------------------------------------------------- data model
\* models.py JobStage
Stages == {"QUEUED", "DOWNLOADING", "PROCESSING", "PUBLISHING", "COMPLETED", "FAILED"}

Terminal == {"COMPLETED", "FAILED"}

\* Optional[str] fields: the value None
None == "<None>"

\* Optional[VideoJob]: the value None (jobs are numbered from 1)
NoJob == 0

\* the exceptions a step of the pipeline can raise: DependencyError always
\* carries the text built by _resolve_executable; any other Exception carries
\* an arbitrary text, possibly the empty one (str(RuntimeError()) == "")
DependencyErrors == {[kind |-> "DependencyError", text |-> "Il comando non e' disponibile"]}

OtherErrors == {[kind |-> "Exception", text |-> t] : t \in {"", "boom"}}

NoExc == [kind |-> "none", text |-> ""]

NoEvents == [s \in Stages |-> 0]

\* submit() has created the job's directories; nothing is deleted yet
FreshDirs == [scratch |-> TRUE, clips |-> TRUE]

\* no job in the pipeline
NoDirs == [scratch |-> FALSE, clips |-> FALSE]

VARIABLES
    status,       \* job.status, indexed by job (1..Len)
    error,        \* job.error
    clip_plan,    \* len(job.clip_plan) of the job in the pipeline (0 outside it:
                  \* no modelled step reads the plan of another job)
    queue,        \* controller._queue: jobs waiting, oldest first
    unfinished,   \* controller._queue.unfinished_tasks: put() minus task_done()
    stop_event,   \* controller._stop_event
    active_job,   \* controller.active_job
    wpc,          \* position of the worker thread
    exc,          \* exception travelling from process_job to the handler
    pub_i,        \* index of publish_clips' loop
    dirs,         \* the directories of the job in the pipeline: do its scratch
                  \* (download, processing) files and its clip files still exist
    unemitted,    \* jobs whose submit() has enqueued but not yet emitted QUEUED
    ui_queue,     \* WorkspaceFrame._ui_queue: events on their way to the observer
    emitted,      \* history of the job in the pipeline: per stage, the number of
                  \* events the worker has emitted for it
    written,      \* history of the job in the pipeline: the stages the worker has
                  \* written with update_status
    terminated,   \* history: the jobs whose status has held COMPLETED or FAILED
    \* ---- the registry and its controllers, seen from outside the pipeline
    controllers,  \* WorkspaceRegistry._controllers: workspace id -> controller
    ctl,          \* the WorkspaceController objects constructed so far
    gui,          \* the controller whose submit() the UI thread is inside
    in_callback,  \* the threads that are executing the progress callback
    made,         \* how many jobs submit() made per (workspace, identifier)
    op,           \* the last call made on the registry and what it returned
    \* ---- one call of generate_clip_plan, or of another function
    args,         \* its arguments
    clips,        \* its list of (start, end)
    pstart,       \* its loop variable start
    ppc,          \* where the call stands
    result        \* what a call of another function returned

mainvars == <<status, error, clip_plan, queue, unfinished, stop_event, active_job, wpc, exc,
              pub_i, dirs, unemitted, ui_queue, emitted, written, terminated>>
regvars == <<controllers, ctl, gui, in_callback, made, op>>
planvars == <<args, clips, pstart, ppc, result>>
othervars == <<regvars, planvars>>
vars == <<mainvars, regvars, planvars>>

jobvars == <<status, error, terminated>>

ctlvars == <<queue, unfinished, stop_event, active_job>>

wrkvars == <<wpc, exc, pub_i, dirs, emitted, written>>

Jobs == 1..Len(status)

\* the workspace ids the registry is asked for: one more than it can hold
\* controllers for, so that some id is always unknown to it
WorkspaceIds == 1..(MaxControllers + 1)

\* the values of uuid.uuid4().hex[:8]
Identifiers == 1..MaxSubmits

\* no call made on the registry yet
NoOp == [name |-> "none", id |-> 0, ret |-> 0]

\* WorkspaceRegistry.__init__: no controller; nothing submitted
RegInit ==
    /\ controllers = [w \in WorkspaceIds |-> 0]
    /\ ctl = <<>>
    /\ gui = 0
    /\ in_callback = {}
    /\ made = [w \in WorkspaceIds, i \in Identifiers |-> 0]
    /\ op = NoOp

\* no registry: the controller stands alone
RegIdle ==
    /\ controllers = <<>>
    /\ ctl = <<>>
    /\ gui = 0
    /\ in_callback = {}
    /\ made = <<>>
    /\ op = NoOp

\* no call of generate_clip_plan under way
NoArgs == [duration |-> 0, clip_duration |-> 0, overlap |-> 0, final_min |-> 0, final_max |-> 0]

\* the call has not returned
NoResult == [pending |-> TRUE]

PlanIdle ==
    /\ args = NoArgs
    /\ clips = <<>>
    /\ pstart = 0
    /\ ppc = "idle"
    /\ result = NoResult

\* one controller just constructed, seen from inside
MainInit ==
    /\ status = <<>>
    /\ error = <<>>
    /\ clip_plan = 0
    /\ queue = <<>>
    /\ unfinished = 0
    /\ stop_event = FALSE
    /\ active_job = NoJob
    /\ wpc = "top"
    /\ exc = NoExc
    /\ pub_i = 0
    /\ dirs = NoDirs
    /\ unemitted = {}
    /\ ui_queue = <<>>
    /\ emitted = NoEvents
    /\ written = {}
    /\ terminated = {}

Init == MainInit /\ RegIdle /\ PlanIdle

\* ---------------------------------------------------------------- helpers
\* VideoJob.update_status: status and error are overwritten together
update_status(j, stage, err) ==
    /\ status' = [status EXCEPT ![j] = stage]
    /\ error' = [error EXCEPT ![j] = err]
    /\ terminated' = IF stage \in Terminal THEN terminated \cup {j} ELSE terminated

\* WorkspaceController._emit / PipelineLogger.emit with the GUI's callback
\* WorkspaceFrame._on_progress: the event is put on the observer's queue
emit(j, stage, message) ==
    /\ Len(ui_queue) < MaxPending
    /\ ui_queue' = Append(ui_queue, [job |-> j, stage |-> stage, message |-> message])

\* an exception leaves process_job towards the handlers of _worker
raise(e) ==
    /\ exc' = e
    /\ wpc' = "except"

\* ----------------------------------------------------------------- submit
\* WorkspaceController.submit, first part: a fresh job in stage QUEUED is
\* built and put on the queue (workspace.py:48-67)
Submit ==
    /\ Len(status) < MaxJobs
    /\ status' = Append(status, "QUEUED")
    /\ error' = Append(error, None)
    /\ queue' = Append(queue, Len(status) + 1)
    /\ unfinished' = unfinished + 1
    /\ unemitted' = unemitted \cup {Len(status) + 1}
    /\ UNCHANGED <<stop_event, active_job, terminated, clip_plan, ui_queue>>
    /\ UNCHANGED wrkvars
    /\ UNCHANGED othervars

\* WorkspaceController.submit, second part: the QUEUED event is emitted after
\* the job is already visible to the worker (workspace.py:68)
SubmitEmit(j) ==
    /\ j \in unemitted
    /\ unemitted' = unemitted \ {j}
    /\ emit(j, "QUEUED", "In coda")
    /\ UNCHANGED clip_plan
    /\ UNCHANGED jobvars
    /\ UNCHANGED ctlvars
    /\ UNCHANGED wrkvars
    /\ UNCHANGED othervars

\* WorkspaceController.stop: the flag is set; the bounded join changes nothing
Stop ==
    /\ ~stop_event
    /\ stop_event' = TRUE
    /\ UNCHANGED <<queue, unfinished, active_job, clip_plan, unemitted, ui_queue>>
    /\ UNCHANGED jobvars
    /\ UNCHANGED wrkvars
    /\ UNCHANGED othervars

\* ------------------------------------------------------------ worker loop
\* a worker whose loop never reads the flag
WorkerNeverStops ==
    /\ wpc = "top"
    /\ wpc' = "poll"
    /\ UNCHANGED <<exc, pub_i, dirs, emitted, written, clip_plan, unemitted, ui_queue>>
    /\ UNCHANGED jobvars
    /\ UNCHANGED ctlvars
    /\ UNCHANGED othervars

\* while not self._stop_event.is_set()
WorkerCheckStop ==
    /\ wpc = "top"
    /\ wpc' = IF stop_event THEN "exited" ELSE "poll"
    /\ UNCHANGED <<exc, pub_i, dirs, emitted, written, clip_plan, unemitted, ui_queue>>
    /\ UNCHANGED jobvars
    /\ UNCHANGED ctlvars
    /\ UNCHANGED othervars

\* a worker that takes a job wherever it stands (as if every get() ran on a
\* thread of its own)
PollingAnywhere == wpc \notin {"exited"}

\* the worker is blocked in self._queue.get(timeout=0.2)
Polling == wpc = "poll"

\* a queue that hands out the newest item first
get_lifo(q) == [item |-> q[Len(q)], rest |-> SubSeq(q, 1, Len(q) - 1)]

\* a queue whose get leaves the item on the queue
get_peek(q) == [item |-> Head(q), rest |-> q]

\* queue.Queue.get on a non-empty queue: first in, first out
get(q) == [item |-> Head(q), rest |-> Tail(q)]

\* self._queue.get(timeout=0.2) returns an item; self.active_job = job
WorkerGet ==
    /\ Polling
    /\ queue /= <<>>
    /\ active_job' = get(queue).item
    /\ queue' = get(queue).rest
    /\ wpc' = "process_job"
    /\ dirs' = FreshDirs
    /\ UNCHANGED <<unfinished, stop_event, exc, pub_i, emitted, written, clip_plan,
                   unemitted, ui_queue>>
    /\ UNCHANGED jobvars
    /\ UNCHANGED othervars

\* queue.Empty after the poll interval: continue
WorkerEmpty ==
    /\ wpc = "poll"
    /\ queue = <<>>
    /\ unfinished = 0
    /\ wpc' = "top"
    /\ UNCHANGED <<exc, pub_i, dirs, emitted, written, clip_plan, unemitted, ui_queue>>
    /\ UNCHANGED jobvars
    /\ UNCHANGED ctlvars
    /\ UNCHANGED othervars

\* a step of the worker that only calls job.update_status on its job
StatusStep(from, to, stage, err) ==
    /\ wpc = from
    /\ update_status(active_job, stage, err)
    /\ written' = written \cup {stage}
    /\ wpc' = to
    /\ UNCHANGED <<exc, pub_i, dirs, emitted, clip_plan, unemitted, ui_queue>>
    /\ UNCHANGED ctlvars
    /\ UNCHANGED othervars

\* the worker emits a progress event for its job
worker_emit(stage, message) ==
    /\ emit(active_job, stage, message)
    /\ emitted' = [emitted EXCEPT ![stage] = @ + 1]

\* a step of the worker that only emits a progress event
EmitStep(from, to, stage, message) ==
    /\ wpc = from
    /\ worker_emit(stage, message)
    /\ wpc' = to
    /\ UNCHANGED <<exc, pub_i, dirs, written, clip_plan, unemitted>>
    /\ UNCHANGED jobvars
    /\ UNCHANGED ctlvars
    /\ UNCHANGED othervars

\* a collaborator call that gives the job up once stop() was requested: the
\* pipeline returns early, with no status written
CallStepCancellable(from, to, errors) ==
    /\ wpc = from
    /\ \/ ~stop_event /\ wpc' = to /\ exc' = exc
       \/ stop_event /\ wpc' = "finally" /\ exc' = exc
       \/ \E e \in errors : raise(e)

\* a step of the worker inside an external collaborator, which returns (the
\* worker goes on at "to") or raises one of "errors"
CallStep(from, to, errors) ==
    /\ wpc = from
    /\ \/ wpc' = to /\ exc' = exc
       \/ \E e \in errors : raise(e)

\* ------------------------------------------------------------ process_job
\* job.update_status(JobStage.DOWNLOADING)
SetDownloading == StatusStep("process_job", "emit_downloading", "DOWNLOADING", None)

\* self.logger.emit(job, JobStage.DOWNLOADING, "Download in corso")
EmitDownloading == EmitStep("emit_downloading", "download", "DOWNLOADING", "Download in corso")

\* ClipperPipeline.download: emits DOWNLOADING again, then yt-dlp is resolved
\* (DependencyError) and run (CalledProcessError, RuntimeError) or succeeds
Download ==
    /\ worker_emit("DOWNLOADING", "Download del video in corso")
    /\ CallStep("download", "set_processing", DependencyErrors \cup OtherErrors)
    /\ UNCHANGED <<pub_i, dirs, written, clip_plan, unemitted>>
    /\ UNCHANGED jobvars
    /\ UNCHANGED ctlvars
    /\ UNCHANGED othervars

\* job.update_status(JobStage.PROCESSING)
SetProcessing == StatusStep("set_processing", "probe", "PROCESSING", None)

\* probe_duration (ffprobe missing, failing, or malformed output) and the
\* clip plan built from the probed duration
Probe ==
    /\ CallStep("probe", "emit_rendering", DependencyErrors \cup OtherErrors)
    /\ IF wpc' = "emit_rendering"
        THEN \E n \in 0..MaxClips : clip_plan' = n
        ELSE clip_plan' = clip_plan
    /\ UNCHANGED <<pub_i, dirs, emitted, written, unemitted, ui_queue>>
    /\ UNCHANGED jobvars
    /\ UNCHANGED ctlvars
    /\ UNCHANGED othervars

\* self.logger.emit(job, JobStage.PROCESSING, "Rendering clip")
EmitRendering == EmitStep("emit_rendering", "render", "PROCESSING", "Rendering clip")

\* render_clips: ffmpeg is resolved (DependencyError) and run once per clip
RenderClips ==
    /\ CallStep("render", "emit_transcribing", DependencyErrors \cup OtherErrors)
    /\ UNCHANGED <<pub_i, dirs, emitted, written, clip_plan, unemitted, ui_queue>>
    /\ UNCHANGED jobvars
    /\ UNCHANGED ctlvars
    /\ UNCHANGED othervars

\* self.logger.emit(job, JobStage.PROCESSING, "Trascrizione audio")
EmitTranscribing == EmitStep("emit_transcribing", "transcribe", "PROCESSING", "Trascrizione audio")

\* a transcribe that lets the failed import of whisper out, after the notice
TranscribeAbsentRaises ==
    /\ wpc = "transcribe"
    /\ worker_emit("PROCESSING", "Whisper non disponibile")
    /\ raise([kind |-> "Exception", text |-> "boom"])
    /\ UNCHANGED <<pub_i, dirs, written, clip_plan, unemitted>>
    /\ UNCHANGED jobvars
    /\ UNCHANGED ctlvars
    /\ UNCHANGED othervars

\* transcribe with whisper missing: one PROCESSING notice, no subtitles
TranscribeAbsent ==
    EmitStep("transcribe", "set_publishing", "PROCESSING", "Whisper non disponibile")
    /\ UNCHANGED othervars

\* transcribe with whisper present: subtitles are written, or the model raises
TranscribePresent ==
    /\ CallStep("transcribe", "emit_subtitles", OtherErrors)
    /\ UNCHANGED <<pub_i, dirs, emitted, written, clip_plan, unemitted, ui_queue>>
    /\ UNCHANGED jobvars
    /\ UNCHANGED ctlvars
    /\ UNCHANGED othervars

\* if subtitle_path: self.logger.emit(job, JobStage.PROCESSING, "Sottotitoli: ...")
EmitSubtitles == EmitStep("emit_subtitles", "set_publishing", "PROCESSING", "Sottotitoli")

\* job.update_status(JobStage.PUBLISHING)
SetPublishing == StatusStep("set_publishing", "emit_publishing", "PUBLISHING", None)

\* self.logger.emit(job, JobStage.PUBLISHING, "Pubblicazione delle clip")
EmitPublishing == EmitStep("emit_publishing", "publish", "PUBLISHING", "Pubblicazione delle clip")

\* publish_clips, one iteration: the delay is drawn, announced and slept
PublishClip ==
    /\ wpc = "publish"
    /\ pub_i < clip_plan
    /\ worker_emit("PUBLISHING", "Clip: attesa prima della pubblicazione")
    /\ pub_i' = pub_i + 1
    /\ UNCHANGED <<wpc, exc, dirs, written, clip_plan, unemitted>>
    /\ UNCHANGED jobvars
    /\ UNCHANGED ctlvars
    /\ UNCHANGED othervars

\* publish_clips returns; job.update_status(JobStage.COMPLETED)
SetCompleted ==
    /\ wpc = "publish"
    /\ pub_i = clip_plan
    /\ StatusStep("publish", "emit_completed", "COMPLETED", None)

\* self.logger.emit(job, JobStage.COMPLETED, "Completato")
EmitCompleted == EmitStep("emit_completed", "cleanup", "COMPLETED", "Completato")

\* what cleanup leaves on disk when it returns: the scratch files are gone,
\* the clip files are gone if job.status is COMPLETED at that moment
cleaned(st) == [scratch |-> FALSE, clips |-> st /= "COMPLETED"]

\* what cleanup leaves on disk when iterdir/unlink raises: it stopped among
\* the scratch files, or (scratch done, status COMPLETED) among the clip files
interrupted(st) ==
    {[scratch |-> TRUE, clips |-> TRUE]}
        \cup (IF st = "COMPLETED" THEN {[scratch |-> FALSE, clips |-> FALSE]} ELSE {})

\* cleanup: the scratch files are unlinked, then the clip files if the job is
\* COMPLETED; only rmdir's OSError is swallowed, so iterdir/unlink failing
\* raises out of process_job
Cleanup ==
    /\ CallStep("cleanup", "finally", OtherErrors)
    /\ IF wpc' = "finally"
        THEN dirs' = cleaned(status[active_job])
        ELSE dirs' \in interrupted(status[active_job])
    /\ UNCHANGED <<pub_i, emitted, written, clip_plan, unemitted, ui_queue>>
    /\ UNCHANGED jobvars
    /\ UNCHANGED ctlvars
    /\ UNCHANGED othervars

\* ------------------------------------------------- handlers of the worker
\* a worker with the first handler only
CaughtDependencyOnly(e) == e.kind = "DependencyError"

\* the exceptions the handlers of _worker catch: except DependencyError,
\* except Exception
Caught(e) == e.kind \in {"DependencyError", "Exception"}

\* except ... as exc: job.update_status(JobStage.FAILED, str(exc))
HandleFailure ==
    /\ wpc = "except"
    /\ Caught(exc)
    /\ StatusStep("except", "emit_failed", "FAILED", exc.text)
    /\ UNCHANGED othervars

\* the text of the FAILED event: str(exc), or "Errore inatteso: {exc}"
FailedMessage(e) ==
    IF e.kind = "DependencyError" THEN e.text ELSE "Errore inatteso: " \o e.text

\* self._emit(job, JobStage.FAILED, ...)
EmitFailed == EmitStep("emit_failed", "finally", "FAILED", FailedMessage(exc))

\* a worker whose handlers leave the loop after a failed job
WorkerFinallyBreaks ==
    /\ wpc = "finally"
    /\ active_job' = NoJob
    /\ exc' = NoExc
    /\ pub_i' = 0
    /\ dirs' = NoDirs
    /\ emitted' = NoEvents
    /\ written' = {}
    /\ unfinished' = unfinished - 1
    /\ clip_plan' = 0
    /\ wpc' = IF exc = NoExc THEN "top" ELSE "exited"
    /\ UNCHANGED <<queue, stop_event, unemitted, ui_queue>>
    /\ UNCHANGED jobvars
    /\ UNCHANGED othervars

\* finally: self.active_job = None; self._queue.task_done()
WorkerFinally ==
    /\ wpc = "finally"
    /\ active_job' = NoJob
    /\ exc' = NoExc
    /\ pub_i' = 0
    /\ dirs' = NoDirs
    /\ emitted' = NoEvents
    /\ written' = {}
    /\ unfinished' = unfinished - 1
    /\ clip_plan' = 0
    /\ wpc' = "top"
    /\ UNCHANGED <<queue, stop_event, unemitted, ui_queue>>
    /\ UNCHANGED jobvars
    /\ UNCHANGED othervars

\* --------------------------------------------------------------- observer
\* WorkspaceFrame._process_ui_queue / _update_job on the UI thread: the
\* oldest event is taken and its stage is written into the job itself,
\* keeping job.error for a FAILED event and clearing it otherwise
ObserverUpdateJob ==
    /\ ui_queue /= <<>>
    /\ update_status(Head(ui_queue).job, Head(ui_queue).stage,
                     IF Head(ui_queue).stage = "FAILED"
                        THEN error[Head(ui_queue).job] ELSE None)
    /\ ui_queue' = Tail(ui_queue)
    /\ UNCHANGED <<clip_plan, unemitted>>
    /\ UNCHANGED wrkvars
    /\ UNCHANGED ctlvars
    /\ UNCHANGED othervars

\* ---------------------------------------------------------- specification
Worker ==
    \/ WorkerCheckStop \/ WorkerGet \/ WorkerEmpty
    \/ SetDownloading \/ EmitDownloading \/ Download
    \/ SetProcessing \/ Probe \/ EmitRendering \/ RenderClips
    \/ EmitTranscribing \/ TranscribeAbsent \/ TranscribePresent \/ EmitSubtitles
    \/ SetPublishing \/ EmitPublishing \/ PublishClip
    \/ SetCompleted \/ EmitCompleted \/ Cleanup
    \/ HandleFailure \/ EmitFailed \/ WorkerFinally

Next ==
    \/ Submit
    \/ \E j \in unemitted : SubmitEmit(j)
    \/ Stop
    \/ Worker
    \/ ObserverUpdateJob

Spec == Init /\ [][Next]_vars

\* the scheduling the liveness claims rest on: the worker thread keeps
\* running and every external call returns or raises; the observer's timer
\* (_process_ui_queue re-arms itself in its finally) keeps draining
LiveSpec == Spec /\ WF_vars(Worker) /\ WF_vars(ObserverUpdateJob)

\* =============================================== the registry's controllers
\* Several controllers side by side, each seen from outside: its stop flag,
\* the length of its queue, its logger's lock and the position of its worker
\* thread between the calls that block or call back.
Controllers == 1..Len(ctl)

\* the UI thread (which calls the registry and submit()); the worker thread
\* of controller c is thread c
UiThread == 0

\* WorkspaceController.__init__: empty queue, stop flag clear, a pipeline with
\* its own PipelineLogger (lock free), the worker thread started
NewController(w) == [ws |-> w, stop |-> FALSE, queued |-> 0, lock |-> FALSE, pc |-> "top"]

\* the controller the registry holds for the frame of controller c is c
Registered(c) == controllers[ctl[c].ws] = c

\* number of jobs submit() has made
RECURSIVE Total(_, _)
Total(f, S) == IF S = {} THEN 0
               ELSE LET x == CHOOSE y \in S : TRUE IN f[x] + Total(f, S \ {x})

Submitted == Total(made, WorkspaceIds \X Identifiers)

\* a registry that constructs a controller at every call
always_missing(w) == TRUE

\* get_or_create's test: workspace_id not in self._controllers
missing(w) == controllers[w] = 0

\* WorkspaceRegistry.get_or_create
GetOrCreate(w) ==
    /\ gui = 0
    /\ IF missing(w)
        THEN /\ Len(ctl) < MaxControllers
             /\ ctl' = Append(ctl, NewController(w))
             /\ controllers' = [controllers EXCEPT ![w] = Len(ctl) + 1]
        ELSE UNCHANGED <<ctl, controllers>>
    /\ op' = [name |-> "get_or_create", id |-> w, ret |-> controllers'[w]]
    /\ UNCHANGED <<gui, in_callback, made>>
    /\ UNCHANGED <<mainvars, planvars>>

\* WorkspaceController.stop on controller c: the flag is set; join(timeout=1)
\* only waits
stop(c) == [ctl EXCEPT ![c].stop = TRUE]

\* WorkspaceRegistry.remove: pop(workspace_id, None), then stop() if there
\* was a controller
Remove(w) ==
    /\ gui = 0
    /\ controllers' = [controllers EXCEPT ![w] = 0]
    /\ ctl' = IF controllers[w] /= 0 THEN stop(controllers[w]) ELSE ctl
    /\ op' = [name |-> "remove", id |-> w, ret |-> 0]
    /\ UNCHANGED <<gui, in_callback, made>>
    /\ UNCHANGED <<mainvars, planvars>>

\* WorkspaceRegistry.stop_all: stop() on every controller in the dictionary
StopAll ==
    /\ gui = 0
    /\ ctl' = [c \in Controllers |-> IF Registered(c) THEN stop(c)[c] ELSE ctl[c]]
    /\ op' = [name |-> "stop_all", id |-> 0, ret |-> 0]
    /\ UNCHANGED <<controllers, gui, in_callback, made>>
    /\ UNCHANGED <<mainvars, planvars>>

\* WorkspaceController.submit called by the frame of controller c: the
\* identifier is uuid4().hex[:8], the directories job_<identifier> are made
\* with exist_ok=True, the job is put on the queue and the UI thread enters
\* the callback through _emit, which takes no lock
CtlSubmit(c, i) ==
    /\ gui = 0
    /\ Registered(c)
    /\ Submitted < MaxSubmits
    /\ made' = [made EXCEPT ![ctl[c].ws, i] = @ + 1]
    /\ ctl' = [ctl EXCEPT ![c].queued = @ + 1]
    /\ gui' = c
    /\ in_callback' = in_callback \cup {UiThread}
    /\ UNCHANGED <<controllers, op>>
    /\ UNCHANGED <<mainvars, planvars>>

\* the callback of submit()'s QUEUED event returns
CtlSubmitReturn ==
    /\ gui /= 0
    /\ gui' = 0
    /\ in_callback' = in_callback \ {UiThread}
    /\ UNCHANGED <<controllers, ctl, made, op>>
    /\ UNCHANGED <<mainvars, planvars>>

\* the worker of controller c moves from one position to another
CtlGoto(c, from, to) ==
    /\ ctl[c].pc = from
    /\ ctl' = [ctl EXCEPT ![c].pc = to]

\* _worker: the while condition
CtlCheckStop(c) ==
    /\ \/ ctl[c].stop /\ CtlGoto(c, "top", "exited")
       \/ ~ctl[c].stop /\ CtlGoto(c, "top", "poll")
    /\ UNCHANGED <<controllers, gui, in_callback, made, op>>
    /\ UNCHANGED <<mainvars, planvars>>

\* _worker: get(timeout=0.2) returns a job of this controller's own queue
CtlGet(c) ==
    /\ ctl[c].pc = "poll"
    /\ ctl[c].queued > 0
    /\ ctl' = [ctl EXCEPT ![c].pc = "log", ![c].queued = @ - 1]
    /\ UNCHANGED <<controllers, gui, in_callback, made, op>>
    /\ UNCHANGED <<mainvars, planvars>>

\* _worker: get(timeout=0.2) raises queue.Empty
CtlEmpty(c) ==
    /\ ctl[c].queued = 0
    /\ CtlGoto(c, "poll", "top")
    /\ UNCHANGED <<controllers, gui, in_callback, made, op>>
    /\ UNCHANGED <<mainvars, planvars>>

\* one lock for the loggers of all pipelines
logger_lock_shared(c) == CHOOSE k \in Controllers : TRUE

\* the controller whose pipeline's PipelineLogger the worker of c emits
\* through: its own
logger_lock(c) == c

\* PipelineLogger.emit: with self._lock, the callback is entered
CtlLogAcquire(c) ==
    /\ ctl[c].pc = "log"
    /\ ~ctl[logger_lock(c)].lock
    /\ ctl' = [ctl EXCEPT ![c].pc = "in_log", ![logger_lock(c)].lock = TRUE]
    /\ in_callback' = in_callback \cup {c}
    /\ UNCHANGED <<controllers, gui, made, op>>
    /\ UNCHANGED <<mainvars, planvars>>

\* PipelineLogger.emit: the callback returns and the lock is released; the
\* pipeline goes on to an external call
CtlLogRelease(c) ==
    /\ ctl[c].pc = "in_log"
    /\ ctl' = [ctl EXCEPT ![c].pc = "call", ![logger_lock(c)].lock = FALSE]
    /\ in_callback' = in_callback \ {c}
    /\ UNCHANGED <<controllers, gui, made, op>>
    /\ UNCHANGED <<mainvars, planvars>>

\* the external call returns and the job runs to its end
CtlCallReturn(c) ==
    /\ CtlGoto(c, "call", "finally")
    /\ UNCHANGED <<controllers, gui, in_callback, made, op>>
    /\ UNCHANGED <<mainvars, planvars>>

\* the external call raises: _worker's handler
CtlCallRaise(c) ==
    /\ CtlGoto(c, "call", "emit_failed")
    /\ UNCHANGED <<controllers, gui, in_callback, made, op>>
    /\ UNCHANGED <<mainvars, planvars>>

\* _worker's handler: self._emit(job, FAILED, ...) enters the callback
\* without any lock
CtlEmitFailed(c) ==
    /\ CtlGoto(c, "emit_failed", "in_emit")
    /\ in_callback' = in_callback \cup {c}
    /\ UNCHANGED <<controllers, gui, made, op>>
    /\ UNCHANGED <<mainvars, planvars>>

\* the callback of the FAILED event returns
CtlEmitFailedReturn(c) ==
    /\ CtlGoto(c, "in_emit", "finally")
    /\ in_callback' = in_callback \ {c}
    /\ UNCHANGED <<controllers, gui, made, op>>
    /\ UNCHANGED <<mainvars, planvars>>

\* _worker's finally: task_done, back to the top of the loop
CtlFinally(c) ==
    /\ CtlGoto(c, "finally", "top")
    /\ UNCHANGED <<controllers, gui, in_callback, made, op>>
    /\ UNCHANGED <<mainvars, planvars>>

\* the worker thread of controller c
CtlWorker(c) ==
    \/ CtlCheckStop(c) \/ CtlGet(c) \/ CtlEmpty(c)
    \/ CtlLogAcquire(c) \/ CtlLogRelease(c)
    \/ CtlCallReturn(c) \/ CtlCallRaise(c)
    \/ CtlEmitFailed(c) \/ CtlEmitFailedReturn(c)
    \/ CtlFinally(c)

\* the registry as the UI thread drives it: tabs opened, tabs closed, the
\* application closed
RegNext ==
    \/ \E w \in WorkspaceIds : GetOrCreate(w)
    \/ \E w \in WorkspaceIds : Remove(w)
    \/ StopAll

\* an empty registry, no controller constructed yet
RegistryInit == MainInit /\ RegInit /\ PlanIdle

RegSpec == RegistryInit /\ [][RegNext]_vars

\* two tabs are open: WorkspaceFrame.__init__ has called get_or_create for
\* workspace 1 and for workspace 2
PairInit ==
    /\ MainInit
    /\ PlanIdle
    /\ controllers = [w \in WorkspaceIds |-> IF w \in {1, 2} THEN w ELSE 0]
    /\ ctl = <<NewController(1), NewController(2)>>
    /\ gui = 0
    /\ in_callback = {}
    /\ made = [w \in WorkspaceIds, i \in Identifiers |-> 0]
    /\ op = [name |-> "get_or_create", id |-> 2, ret |-> 2]

\* the two controllers at work: links are submitted, the workers run, tabs
\* are closed
PairNext ==
    \/ \E c \in Controllers, i \in Identifiers : CtlSubmit(c, i)
    \/ CtlSubmitReturn
    \/ \E c \in Controllers : CtlWorker(c)
    \/ \E w \in WorkspaceIds : Remove(w)
    \/ StopAll

PairSpec == PairInit /\ [][PairNext]_vars

\* tabs are opened, used and closed while the workers run: the registry
\* starts empty and every controller is constructed by get_or_create
ReopenNext ==
    \/ \E w \in WorkspaceIds : GetOrCreate(w)
    \/ \E w \in WorkspaceIds : Remove(w)
    \/ \E c \in Controllers, i \in Identifiers : CtlSubmit(c, i)
    \/ CtlSubmitReturn
    \/ \E c \in Controllers : CtlWorker(c)

ReopenSpec == RegistryInit /\ [][ReopenNext]_vars

\* ====================================================== generate_clip_plan
\* One call of utils.generate_clip_plan, its loop unrolled one iteration per
\* step. Times are whole seconds.
Max(a, b) == IF a >= b THEN a ELSE b

Min(a, b) == IF a <= b THEN a ELSE b

\* the arguments of a call: a duration that may be zero or negative, and
\* settings that may be zero or negative too
PlanInputs ==
    [duration : (-1)..MaxDuration,
     clip_duration : (-1)..MaxSetting,
     overlap : (-1)..MaxSetting,
     final_min : (-1)..MaxSetting,
     final_max : (-1)..MaxSetting]

\* calls with the settings of a real workspace, in seconds
Plan260 == [duration |-> 260, clip_duration |-> 120, overlap |-> 0, final_min |-> 120, final_max |-> 240]

Plan90 == [duration |-> 90, clip_duration |-> 120, overlap |-> 0, final_min |-> 60, final_max |-> 240]

Plan115 == [duration |-> 115, clip_duration |-> 120, overlap |-> 10, final_min |-> 60, final_max |-> 240]

Plan300 == [duration |-> 300, clip_duration |-> 120, overlap |-> 10, final_min |-> 60, final_max |-> 240]

PlanExamples == {Plan260, Plan90, Plan115, Plan300}

PlanInit ==
    /\ MainInit
    /\ RegIdle
    /\ args \in PlanInputs \cup PlanExamples
    /\ clips = <<>>
    /\ pstart = 0
    /\ ppc = "entry"
    /\ result = NoResult

\* clip_duration = max(1, clip_duration); overlap = max(0, overlap)
clip_length == Max(1, args.clip_duration)

clip_overlap == Max(0, args.overlap)

\* if duration <= 0: return []; otherwise the walk starts at 0.0
PlanEnter ==
    /\ ppc = "entry"
    /\ ppc' = IF args.duration <= 0 THEN "done" ELSE "walk"
    /\ UNCHANGED <<args, clips, pstart, result>>
    /\ UNCHANGED <<mainvars, regvars>>

\* a walk that steps over the overlap instead of stepping back by it
next_start_forward(end, ov) == end + ov

\* a walk that forgets the overlap
next_start_no_overlap(end, ov) == end

\* start = end - overlap
next_start(end, ov) == end - ov

\* one iteration of the while loop: a clip from start, clipped to the
\* duration; the loop is left when the next start reaches the duration.
\* A walk whose start does not advance is followed for MaxDuration + 1
\* clips, more than any advancing walk makes.
PlanWalk ==
    /\ ppc = "walk"
    /\ pstart < args.duration
    /\ Len(clips) <= MaxDuration
    /\ LET end == pstart + clip_length
       IN /\ clips' = Append(clips, <<pstart, Min(end, args.duration)>>)
          /\ pstart' = next_start(end, clip_overlap)
          /\ ppc' = IF next_start(end, clip_overlap) >= args.duration THEN "adjust" ELSE "walk"
    /\ UNCHANGED <<args, result>>
    /\ UNCHANGED <<mainvars, regvars>>

\* length of the last clip of a plan
final_length(cl) == cl[Len(cl)][2] - cl[Len(cl)][1]

\* an adjustment without the final_max branch
adjust_final_no_trim(cl, final_min, final_max) ==
    LET final_start == cl[Len(cl)][1]
        final_end == cl[Len(cl)][2]
        new_start ==
            IF final_length(cl) < final_min /\ Len(cl) > 1
            THEN Max(0, final_start - (final_min - final_length(cl)))
            ELSE final_start
    IN [cl EXCEPT ![Len(cl)] = <<new_start, final_end>>]

\* an adjustment that extends backwards without the clamp at 0
adjust_final_unclamped(cl, final_min, final_max) ==
    LET final_start == cl[Len(cl)][1]
        final_end == cl[Len(cl)][2]
        new_start ==
            IF final_length(cl) < final_min /\ Len(cl) > 1
            THEN final_start - (final_min - final_length(cl))
            ELSE IF final_length(cl) > final_max
                 THEN final_end - final_max
                 ELSE final_start
    IN [cl EXCEPT ![Len(cl)] = <<new_start, final_end>>]

\* an adjustment that trims the final clip at its end instead of its start
adjust_final_moves_end(cl, final_min, final_max) ==
    LET final_start == cl[Len(cl)][1]
        final_end == cl[Len(cl)][2]
    IN IF final_length(cl) < final_min /\ Len(cl) > 1
       THEN [cl EXCEPT ![Len(cl)] =
                <<Max(0, final_start - (final_min - final_length(cl))), final_end>>]
       ELSE IF final_length(cl) > final_max
            THEN [cl EXCEPT ![Len(cl)] = <<final_start, final_start + final_max>>]
            ELSE cl

\* the final clip adjusted: extended backwards to final_min when it is not
\* the only clip, else trimmed from the front to final_max
adjust_final(cl, final_min, final_max) ==
    LET final_start == cl[Len(cl)][1]
        final_end == cl[Len(cl)][2]
        new_start ==
            IF final_length(cl) < final_min /\ Len(cl) > 1
            THEN Max(0, final_start - (final_min - final_length(cl)))
            ELSE IF final_length(cl) > final_max
                 THEN final_end - final_max
                 ELSE final_start
    IN [cl EXCEPT ![Len(cl)] = <<new_start, final_end>>]

\* the final-clip adjustment and the return
PlanAdjust ==
    /\ ppc = "adjust"
    /\ clips' = adjust_final(clips, args.final_min, args.final_max)
    /\ ppc' = "done"
    /\ UNCHANGED <<args, pstart, result>>
    /\ UNCHANGED <<mainvars, regvars>>

PlanNext == PlanEnter \/ PlanWalk \/ PlanAdjust

PlanSpec == PlanInit /\ [][PlanNext]_vars

\* process_job: job.clip_plan, the ClipTiming list built by enumerate() over
\* the clips of the plan
ClipTimings(cl) ==
    [k \in 1..Len(cl) |->
        [index |-> k - 1, start |-> cl[k][1], end |-> cl[k][2],
         duration |-> cl[k][2] - cl[k][1], publish_after_seconds |-> 0]]

\* ================================================== the other functions
\* One call of a function of the scheduler or of the layout: the arguments
\* are drawn at the start, the call returns in one step.

\* the call returned v
Returned(v) == [value |-> v]

\* the call raised e
Raised(e) == [raised |-> e]

\* ------------------------------------------------------------ the delays
\* publish_clips' delay for one clip: the settings it reads
Publish120 ==
    [fn |-> "publish_after", randomize_interval |-> TRUE,
     base_seconds |-> 120, variation_seconds |-> 30]

PublishCalls ==
    [fn : {"publish_after"},
     randomize_interval : BOOLEAN,
     base_seconds : (-MaxSetting)..MaxSetting,
     variation_seconds : (-1)..MaxSetting]
        \cup {Publish120}

\* a delay that is not clamped
unclamped_delay(sampled) == sampled

\* return max(0, sampled)
clamp_delay(sampled) == Max(0, sampled)

\* utils.randomise_interval: the values rng.randint(low, high) can draw, each
\* clamped; randint raises ValueError on an empty range
randomise_interval(base_seconds, variation_seconds) ==
    LET low == base_seconds - variation_seconds
        high == base_seconds + variation_seconds
    IN IF low > high THEN {Raised("ValueError")}
       ELSE {Returned(clamp_delay(sampled)) : sampled \in low..high}

\* publish_clips: publish_after for one clip
PublishAfter ==
    /\ ppc = "entry"
    /\ args.fn = "publish_after"
    /\ IF args.randomize_interval
       THEN result' \in randomise_interval(args.base_seconds, args.variation_seconds)
       ELSE result' = Returned(Max(0, args.base_seconds))
    /\ ppc' = "done"
    /\ UNCHANGED <<args, clips, pstart>>
    /\ UNCHANGED <<mainvars, regvars>>

\* ---------------------------------------------------------- the estimate
\* a planned clip as process_job builds it (publish_after_seconds 0), and as
\* publish_clips leaves it once it has assigned the delay; assigned records
\* which of the two wrote the field
PlannedClips ==
    {[publish_after_seconds |-> 0, assigned |-> FALSE]}
        \cup [publish_after_seconds : 0..MaxSetting, assigned : {TRUE}]

ClipPlansOf(n) == [1..n -> PlannedClips]

\* three clips, each with an assigned delay of 60 seconds
Estimate3x60 ==
    [fn |-> "estimate_completion", base |-> 300,
     clip_plan |-> [k \in 1..3 |-> [publish_after_seconds |-> 60, assigned |-> TRUE]]]

\* one clip whose delay is a day, an hour, a minute and a second
EstimateLong ==
    [fn |-> "estimate_completion", base |-> 300,
     clip_plan |-> <<[publish_after_seconds |-> 90061, assigned |-> TRUE]>>]

EstimateCalls ==
    [fn : {"estimate_completion"},
     base : (-MaxSetting)..MaxSetting,
     clip_plan : UNION {ClipPlansOf(n) : n \in 0..(MaxClips + 1)}]
        \cup {Estimate3x60, EstimateLong}

RECURSIVE sum(_)
sum(intervals) ==
    IF intervals = <<>> THEN 0 ELSE Head(intervals) + sum(Tail(intervals))

RECURSIVE join(_)
\* " ".join(parts)
join(parts) ==
    IF Len(parts) = 1 THEN parts[1]
    ELSE parts[1] \o " " \o join(Tail(parts))

\* utils.format_timedelta, of a whole number of seconds
format_timedelta(seconds) ==
    LET total == Max(0, seconds)
        days == total \div 86400
        hours == (total % 86400) \div 3600
        remainder == (total % 86400) % 3600
        minutes == remainder \div 60
        secs == remainder % 60
        parts == (IF days /= 0 THEN <<ToString(days) \o "d">> ELSE <<>>)
                 \o (IF hours /= 0 THEN <<ToString(hours) \o "h">> ELSE <<>>)
                 \o (IF minutes /= 0 THEN <<ToString(minutes) \o "m">> ELSE <<>>)
    IN join(IF secs /= 0 \/ parts = <<>>
            THEN Append(parts, ToString(secs) \o "s")
            ELSE parts)

\* WorkspaceController.estimate_completion
estimate_completion(clip_plan_, base) ==
    IF clip_plan_ = <<>> THEN None
    ELSE LET intervals ==
                 [k \in DOMAIN clip_plan_ |->
                     IF clip_plan_[k].publish_after_seconds /= 0
                     THEN clip_plan_[k].publish_after_seconds
                     ELSE Max(0, base)]
             estimate_seconds == sum(intervals)
         IN IF estimate_seconds <= 0 THEN None
            ELSE format_timedelta(estimate_seconds)

EstimateCompletion ==
    /\ ppc = "entry"
    /\ args.fn = "estimate_completion"
    /\ result' = Returned(estimate_completion(args.clip_plan, args.base))
    /\ ppc' = "done"
    /\ UNCHANGED <<args, clips, pstart>>
    /\ UNCHANGED <<mainvars, regvars>>

\* ------------------------------------------------------------ the layout
Anchors ==
    {"center", "top", "bottom", "left", "right",
     "topleft", "topright", "bottomleft", "bottomright"}

\* what a layout file may hold as anchor: one of the nine, one of them in
\* another case, or a name that is none of them
AnchorInputs == Anchors \cup {"TopRight", "middle"}

\* anchor.lower()
lower(anchor) == IF anchor = "TopRight" THEN "topright" ELSE anchor

\* the video_main layer of a 1080 x 1920 canvas, zoomed to 1200 x 675 and
\* anchored by its centre at x = 540, y = 960
Overlay1080 ==
    [fn |-> "overlay", anchor |-> "center", twice_x |-> 1080, twice_y |-> 1920,
     canvas_width |-> 1080, canvas_height |-> 1920,
     target_width |-> 1200, target_height |-> 675]

\* render_clips' placement of video_main: the stored position (in half
\* pixels, as it is a float), the canvas and the target size (at least 1)
OverlayCalls ==
    [fn : {"overlay"},
     anchor : AnchorInputs,
     twice_x : (-2)..(2 * MaxExtent + 2),
     twice_y : (-2)..(2 * MaxExtent + 2),
     canvas_width : 1..MaxExtent,
     canvas_height : 1..MaxExtent,
     target_width : 1..MaxExtent,
     target_height : 1..MaxExtent]
        \cup {Overlay1080}

\* every unnamed anchor taken as the far corner
anchor_offset_far_corner(anchor, width, height) ==
    LET a == lower(anchor)
    IN CASE a = "topleft" -> <<0, 0>>
         [] a = "topright" -> <<-width, 0>>
         [] a = "bottomleft" -> <<0, -height>>
         [] a = "bottomright" -> <<-width, -height>>
         [] a = "top" -> <<(-width) \div 2, 0>>
         [] a = "bottom" -> <<(-width) \div 2, -height>>
         [] a = "left" -> <<0, (-height) \div 2>>
         [] a = "right" -> <<-width, (-height) \div 2>>
         [] OTHER -> <<-width, -height>>

\* ClipperPipeline._anchor_offset; // rounds towards minus infinity
anchor_offset(anchor, width, height) ==
    LET a == lower(anchor)
    IN CASE a = "topleft" -> <<0, 0>>
         [] a = "topright" -> <<-width, 0>>
         [] a = "bottomleft" -> <<0, -height>>
         [] a = "bottomright" -> <<-width, -height>>
         [] a = "top" -> <<(-width) \div 2, 0>>
         [] a = "bottom" -> <<(-width) \div 2, -height>>
         [] a = "left" -> <<0, (-height) \div 2>>
         [] a = "right" -> <<-width, (-height) \div 2>>
         [] OTHER -> <<(-width) \div 2, (-height) \div 2>>

\* int(round(v)) of v = twice / 2: a half goes to the even neighbour
round_half(twice) ==
    IF twice % 2 = 0 THEN twice \div 2
    ELSE LET below == (twice - 1) \div 2
         IN IF below % 2 = 0 THEN below ELSE below + 1

\* a clamp that forgets the upper limit
clamp_overlay_lower_only(value, canvas_extent, target_extent) ==
    LET lower_ == Min(0, canvas_extent - target_extent)
    IN IF value < lower_ THEN lower_ ELSE value

\* render_clips.clamp_overlay
clamp_overlay(value, canvas_extent, target_extent) ==
    LET lower_ == Min(0, canvas_extent - target_extent)
        upper == Max(0, canvas_extent - target_extent)
    IN IF value < lower_ THEN lower_
       ELSE IF value > upper THEN upper
       ELSE value

\* overlay_x and overlay_y before the clamp
raw_overlay(call) ==
    LET offset == anchor_offset(call.anchor, call.target_width, call.target_height)
    IN <<round_half(call.twice_x + 2 * offset[1]),
         round_half(call.twice_y + 2 * offset[2])>>

\* render_clips: overlay_x, overlay_y of video_main
Overlay ==
    /\ ppc = "entry"
    /\ args.fn = "overlay"
    /\ LET raw == raw_overlay(args)
       IN result' = Returned(
              <<clamp_overlay(raw[1], args.canvas_width, args.target_width),
                clamp_overlay(raw[2], args.canvas_height, args.target_height)>>)
    /\ ppc' = "done"
    /\ UNCHANGED <<args, clips, pstart>>
    /\ UNCHANGED <<mainvars, regvars>>

\* a direct call of _anchor_offset with the size of a box
OffsetCalls ==
    [fn : {"anchor_offset"},
     anchor : AnchorInputs,
     width : 0..(MaxExtent + 1),
     height : 0..(MaxExtent + 1)]
        \cup {[fn |-> "anchor_offset", anchor |-> "center",
                width |-> 1210, height |-> 681]}

\* LayoutEditor._anchor_offset, which divides with / and returns floats: its
\* offsets counted in half pixels
LayoutEditor_anchor_offset(anchor, width, height) ==
    LET a == lower(anchor)
    IN CASE a = "topleft" -> <<0, 0>>
         [] a = "topright" -> <<-(2 * width), 0>>
         [] a = "bottomleft" -> <<0, -(2 * height)>>
         [] a = "bottomright" -> <<-(2 * width), -(2 * height)>>
         [] a = "top" -> <<-width, 0>>
         [] a = "bottom" -> <<-width, -(2 * height)>>
         [] a = "left" -> <<0, -height>>
         [] a = "right" -> <<-(2 * width), -height>>
         [] OTHER -> <<-width, -height>>

\* render_clips: offset_x, offset_y = self._anchor_offset(...)
AnchorOffset ==
    /\ ppc = "entry"
    /\ args.fn = "anchor_offset"
    /\ result' = Returned(anchor_offset(args.anchor, args.width, args.height))
    /\ ppc' = "done"
    /\ UNCHANGED <<args, clips, pstart>>
    /\ UNCHANGED <<mainvars, regvars>>

\* a text layer's stored coordinate on one axis
TextCalls ==
    [fn : {"text_position"},
     anchor : AnchorInputs,
     axis : {"x", "y"},
     value : (-1)..MaxExtent]

\* ClipperPipeline._text_position
text_position(anchor, axis, value) ==
    LET a == lower(anchor)
        v == ToString(value)
    IN CASE a = "topleft" -> v
         [] a = "topright" -> v \o " - text_w"
         [] a = "bottomleft" -> IF axis = "y" THEN v \o " - text_h" ELSE v
         [] a = "bottomright" ->
                IF axis = "x" THEN v \o " - text_w" ELSE v \o " - text_h"
         [] a = "top" -> IF axis = "x" THEN v \o " - text_w/2" ELSE v
         [] a = "bottom" ->
                IF axis = "x" THEN v \o " - text_w/2" ELSE v \o " - text_h"
         [] a = "left" -> IF axis = "x" THEN v ELSE v \o " - text_h/2"
         [] a = "right" ->
                IF axis = "x" THEN v \o " - text_w" ELSE v \o " - text_h/2"
         [] OTHER ->
                IF axis = "x" THEN v \o " - text_w/2" ELSE v \o " - text_h/2"

\* render_clips: x_expr or y_expr of one text layer
TextPosition ==
    /\ ppc = "entry"
    /\ args.fn = "text_position"
    /\ result' = Returned(text_position(args.anchor, args.axis, args.value))
    /\ ppc' = "done"
    /\ UNCHANGED <<args, clips, pstart>>
    /\ UNCHANGED <<mainvars, regvars>>

FnCalls ==
    PublishCalls \cup EstimateCalls \cup OverlayCalls \cup OffsetCalls \cup TextCalls

FnInit ==
    /\ MainInit
    /\ RegIdle
    /\ args \in FnCalls
    /\ clips = <<>>
    /\ pstart = 0
    /\ ppc = "entry"
    /\ result = NoResult

FnNext ==
    PublishAfter \/ EstimateCompletion \/ Overlay \/ AnchorOffset \/ TextPosition

FnSpec == FnInit /\ [][FnNext]_vars

\* ======================================================= publish_clips
\* The part of process_job from the clip plan to COMPLETED, clip by clip:
\* clips holds publish_after_seconds of each ClipTiming of job.clip_plan,
\* pstart the index the loop of publish_clips stands at, result the number
\* of files render_clips returned.

\* the publication settings and the number of clips planned
PublishRuns ==
    [fn : {"publish_clips"},
     planned : 0..(MaxClips + 1),
     randomize_interval : BOOLEAN,
     base_seconds : (-MaxSetting)..MaxSetting,
     variation_seconds : (-1)..MaxSetting]

\* job.clip_plan as process_job builds it: publish_after_seconds = 0
PublishInit ==
    /\ MainInit
    /\ RegIdle
    /\ args \in PublishRuns
    /\ clips = [k \in 1..args.planned |-> 0]
    /\ pstart = 0
    /\ ppc = "render"
    /\ result = NoResult

\* a render that leaves the last clip out
rendered_but_last(planned) == Max(0, planned - 1)

\* render_clips appends one output file for each clip of the plan
rendered(planned) == planned

\* clips = self.render_clips(...): returns the files, or ffmpeg raises
PubRender ==
    /\ ppc = "render"
    /\ \/ result' = Returned(rendered(Len(clips))) /\ ppc' = "loop"
       \/ result' = Raised("CalledProcessError") /\ ppc' = "failed"
    /\ UNCHANGED <<args, clips, pstart>>
    /\ UNCHANGED <<mainvars, regvars>>

\* zip(job.clip_plan, clips) ends with the shorter of the two
zipped == Min(Len(clips), result.value)

\* one iteration, first half: publish_after is drawn and written into the
\* ClipTiming (randint raising leaves process_job)
PubDelay ==
    /\ ppc = "loop"
    /\ pstart < zipped
    /\ \E drawn \in (IF args.randomize_interval
                      THEN randomise_interval(args.base_seconds, args.variation_seconds)
                      ELSE {Returned(Max(0, args.base_seconds))}) :
           IF "value" \in DOMAIN drawn
           THEN /\ clips' = [clips EXCEPT ![pstart + 1] = drawn.value]
                /\ ppc' = "sleep"
           ELSE /\ clips' = clips
                /\ ppc' = "failed"
    /\ UNCHANGED <<args, pstart, result>>
    /\ UNCHANGED <<mainvars, regvars>>

\* one iteration, second half: the simulated wait and the clip's log file
PubSleep ==
    /\ ppc = "sleep"
    /\ pstart' = pstart + 1
    /\ ppc' = "loop"
    /\ UNCHANGED <<args, clips, result>>
    /\ UNCHANGED <<mainvars, regvars>>

\* publish_clips returns; job.update_status(JobStage.COMPLETED)
PubReturn ==
    /\ ppc = "loop"
    /\ pstart >= zipped
    /\ ppc' = "completed"
    /\ UNCHANGED <<args, clips, pstart, result>>
    /\ UNCHANGED <<mainvars, regvars>>

PublishNext == PubRender \/ PubDelay \/ PubSleep \/ PubReturn

PublishSpec == PublishInit /\ [][PublishNext]_vars

\* =================================================================== claims
\* the jobs taken from the queue whose task_done() has not been called yet
InProcess == unfinished - Len(queue)

\* the worker stands inside process_job or its handlers
Processing == wpc \notin {"top", "poll", "exited"}

\* C1: at most one job of the controller is between its dequeue and the end
\* of its pipeline run, and that job is the one the worker holds
C1_AtMostOneActive ==
    /\ InProcess \in {0, 1}
    /\ InProcess = 1 <=> Processing
    /\ Processing => (active_job \in Jobs /\ \A i \in 1..Len(queue) : queue[i] /= active_job)

\* C1 witness: a job is in the pipeline while another one waits in the queue
C1_Witness == InProcess = 1 /\ wpc = "render" /\ Len(queue) = 1

\* C2: whenever the status of a job B changes to DOWNLOADING, every job A
\* submitted before B has already held COMPLETED or FAILED
C2_DownloadAfterEarlierTerminal ==
    [][\A B \in Jobs :
        (status'[B] = "DOWNLOADING" /\ status[B] /= "DOWNLOADING")
            => \A A \in 1..(B - 1) : A \in terminated]_vars

\* C2 witness: the second job is downloading after the first one ended
C2_Witness ==
    /\ Len(status) = 2
    /\ active_job = 2
    /\ wpc = "download"
    /\ status[2] = "DOWNLOADING"
    /\ 1 \in terminated

\* job.error is set: neither None nor the empty string
ErrorSet(j) == error[j] \notin {None, ""}

\* C3: job.error is non-empty if and only if job.status is FAILED
C3_ErrorIffFailed == \A j \in Jobs : ErrorSet(j) <=> status[j] = "FAILED"

\* C4: once a job's stage is COMPLETED or FAILED no step changes it
C4_TerminalIsFinal ==
    [][\A j \in Jobs : status[j] \in Terminal => status'[j] = status[j]]_vars

\* the order of the stages of a successful run
Rank(stage) ==
    CASE stage = "QUEUED" -> 0
      [] stage = "DOWNLOADING" -> 1
      [] stage = "PROCESSING" -> 2
      [] stage = "PUBLISHING" -> 3
      [] stage = "COMPLETED" -> 4
      [] stage = "FAILED" -> 5

\* C5: the stage moves one stage forward at a time, or to FAILED; it never
\* moves backward and never skips a stage
C5_StageOrder ==
    [][\A j \in Jobs :
        status'[j] /= status[j]
            => \/ status'[j] = "FAILED"
               \/ (status[j] /= "FAILED" /\ Rank(status'[j]) = Rank(status[j]) + 1)]_vars

\* the QUEUED event of job j has reached the observer: submit() has emitted
\* it and it is no longer on the observer's queue
QueuedDelivered(j) ==
    /\ j \notin unemitted
    /\ \A i \in 1..Len(ui_queue) :
        ~(ui_queue[i].job = j /\ ui_queue[i].stage = "QUEUED")

\* C6: the observer is handed no DOWNLOADING or later event of a job before
\* that job's QUEUED event
C6_QueuedDeliveredFirst ==
    [][(ui_queue /= <<>> /\ ui_queue' = Tail(ui_queue) /\ Head(ui_queue).stage /= "QUEUED")
        => QueuedDelivered(Head(ui_queue).job)]_vars

\* C7: every stage the worker writes is reported exactly once: no stage is
\* reported twice, and when the pipeline run is over every written stage has
\* been reported
C7_ReportedExactlyOnce ==
    /\ \A s \in Stages : emitted[s] <= 1
    /\ wpc = "finally" => \A s \in written : emitted[s] = 1

\* C8: an exception raised by a step of process_job is caught by the worker,
\* the handler writes FAILED with the captured text into the job, and exactly
\* one FAILED event, with a non-empty message, is emitted for it (none for a
\* job whose run raised nothing)
C8_FailureHandled ==
    /\ [](wpc = "except" => Caught(exc))
    /\ [][(wpc = "except" /\ wpc' /= wpc)
            => /\ wpc' = "emit_failed"
               /\ status'[active_job] = "FAILED"
               /\ error'[active_job] = exc.text]_vars
    /\ [](wpc = "finally" => emitted["FAILED"] = (IF exc = NoExc THEN 0 ELSE 1))
    /\ [](\A i \in 1..Len(ui_queue) :
            ui_queue[i].stage = "FAILED" => ui_queue[i].message /= "")

\* C8 witness: the handler has dealt with a generic exception and the FAILED
\* event is on its way
C8_Witness ==
    /\ wpc = "finally"
    /\ exc.kind = "Exception"
    /\ emitted["FAILED"] = 1
    /\ ui_queue /= <<>>
    /\ ui_queue[Len(ui_queue)].stage = "FAILED"

\* C9: when a job fails while another one is queued behind it, that one is
\* eventually processed to its end, unless stop() is called
C9_FailureDoesNotStopWorker ==
    \A B \in 2..MaxJobs :
        (wpc = "except" /\ ~stop_event /\ \E i \in 1..Len(queue) : queue[i] = B)
            ~> (B \in terminated \/ stop_event)

\* C9 witness: the first job has failed and the second one has run to the end
\* of its pipeline with no stop requested
C9_Witness ==
    /\ Len(status) = 2
    /\ status[1] = "FAILED"
    /\ active_job = 2
    /\ wpc = "cleanup"
    /\ ~stop_event

C11_ScratchCleaned == wpc = "finally" => ~dirs.scratch

\* C12: at the end of a pipeline run the clip files of a job that failed are
\* all still there, and the clip files of a job the worker marked COMPLETED
\* (its run ended without an error) have been removed by cleanup, whatever
\* the observer wrote into the job meanwhile
C12_ClipsRemovedIffCompleted ==
    wpc = "finally" =>
        /\ exc /= NoExc => dirs.clips
        /\ exc = NoExc => ~dirs.clips

\* C13: once stop() has set the flag the worker begins no job: it takes
\* nothing from the queue, whether the job was waiting there or was submitted
\* while the worker was blocked in its poll
C13_NoJobBegunAfterStop ==
    [][stop_event => ~(wpc = "poll" /\ wpc' = "process_job")]_vars

\* C14: the worker starts the jobs in the order they were enqueued: the job
\* it takes is the oldest one waiting, so every job still waiting was
\* enqueued after it and every job enqueued before it has been started
C14_FifoOrder ==
    [][(active_job = NoJob /\ active_job' /= NoJob) =>
          /\ active_job' = Head(queue)
          /\ \A i \in 1..Len(queue') : queue'[i] > active_job'
          /\ \A j \in 1..(active_job' - 1) : j \in terminated]_vars

\* C14 witness: two jobs were waiting and the worker has started the first
C14_Witness ==
    /\ active_job = 1
    /\ wpc = "process_job"
    /\ queue = <<2>>

\* C15: get_or_create is idempotent per id: called for an id the registry
\* holds it returns the controller held and constructs nothing, called for
\* an id it does not hold it constructs one controller (one worker thread)
\* and returns it, so between two remove(id) every call returns the same
\* controller; remove(id) discards the controller and signals it to stop,
\* and changes nothing for an unknown id; stop_all signals every registered
\* controller to stop
C15_RegistryIdempotent ==
    /\ [][op'.name = "get_or_create" =>
            /\ op'.ret = controllers'[op'.id]
            /\ op'.ret /= 0
            /\ controllers[op'.id] /= 0 => (controllers' = controllers /\ ctl' = ctl)
            /\ controllers[op'.id] = 0 =>
                  (Len(ctl') = Len(ctl) + 1 /\ op'.ret = Len(ctl'))]_vars
    /\ [][op'.name = "remove" =>
            /\ controllers'[op'.id] = 0
            /\ controllers[op'.id] /= 0 => ctl'[controllers[op'.id]].stop
            /\ controllers[op'.id] = 0 => (controllers' = controllers /\ ctl' = ctl)]_vars
    /\ [][op'.name = "stop_all" =>
            \A w \in WorkspaceIds : controllers[w] /= 0 => ctl'[controllers[w]].stop]_vars

\* C15 witness: workspace 1 was opened, removed and opened again: the first
\* controller is stopped and get_or_create has returned the second one
C15_Witness ==
    /\ Len(ctl) = 2
    /\ ctl[1].ws = 1
    /\ ctl[1].stop
    /\ ~ctl[2].stop
    /\ op = [name |-> "get_or_create", id |-> 1, ret |-> 2]

\* C16: the workers are independent: whatever the other workers are doing
\* (blocked in an external call, handling a failed job, inside a callback),
\* a worker that has not exited can take its next step: take a job waiting
\* in its queue, enter its logger, return from its call, finish its job
C16_WorkersIndependent ==
    \A b \in Controllers :
        /\ ctl[b].pc /= "exited" => ENABLED CtlWorker(b)
        /\ (ctl[b].pc = "poll" /\ ctl[b].queued > 0) => ENABLED CtlGet(b)

\* C16 witness: the worker of workspace 1 is still inside the external call
\* of its job (or failing) while the worker of workspace 2 has run a job to
\* its end
C16_Witness ==
    /\ ctl[1].pc = "call"
    /\ ctl[2].pc = "finally"

\* C17: the invocations of the progress callback are mutually exclusive: at
\* most one thread is inside the callback at any time
C17_CallbackExclusive == Cardinality(in_callback) <= 1

\* C18: no two jobs made by submit() share an identifier, hence none share a
\* directory
C18_UniqueJobs ==
    \A i \in Identifiers :
        /\ \A w \in WorkspaceIds : made[w, i] <= 1
        /\ \A w1, w2 \in WorkspaceIds : (made[w1, i] > 0 /\ made[w2, i] > 0) => w1 = w2

\* every second [t, t+1) of a source of the given duration lies in a clip
Covers(cl, duration) ==
    \A t \in 0..(duration - 1) : \E k \in 1..Len(cl) : cl[k][1] <= t /\ t + 1 <= cl[k][2]

\* the ClipTiming list has the indices 0..N-1 in list order
DenseIndices(cl) == \A k \in 1..Len(cl) : ClipTimings(cl)[k].index = k - 1

\* C19 as stated: for every duration > 0 and all settings, the clips that
\* generate_clip_plan returns cover [0, duration) with no gap and the
\* ClipTiming list built from them has the indices 0..N-1 in list order
C19_PlanCovers ==
    (ppc = "done" /\ args.duration > 0) =>
        (Covers(clips, args.duration) /\ DenseIndices(clips))

\* C19 amended: the clips of the main loop cover [0, duration) with no gap;
\* the returned clips still do when the final clip is not longer than
\* final_max (it is then not trimmed); the ClipTiming list built from the
\* returned clips has the indices 0..N-1 in list order
C19_WalkCovers ==
    [][(ppc = "adjust" /\ ppc' = "done") =>
          /\ Covers(clips, args.duration)
          /\ final_length(clips) <= args.final_max => Covers(clips', args.duration)
          /\ DenseIndices(clips')]_vars

\* C19 witness: a plan of several clips has been returned, its final clip
\* extended backwards over the one before it, and it covers the source
C19_Witness ==
    /\ ppc = "done"
    /\ Len(clips) >= 2
    /\ clips[Len(clips)][1] < clips[Len(clips) - 1][2]
    /\ final_length(clips) <= args.final_max
    /\ Covers(clips, args.duration)

\* C20: every clip of a returned plan satisfies 0 <= start < end <= duration,
\* for every duration > 0 and all settings; the plan is empty when
\* duration <= 0
C20_ClipBounds ==
    ppc = "done" =>
        /\ args.duration <= 0 => clips = <<>>
        /\ \A k \in 1..Len(clips) :
              0 <= clips[k][1] /\ clips[k][1] < clips[k][2] /\ clips[k][2] <= args.duration

C22_ShortSourceOneClip ==
    (ppc = "done" /\ 0 < args.duration /\ args.duration < args.clip_duration
        /\ args.duration <= args.final_max) =>
        clips = <<<<0, args.duration>>>>

\* C23: when the plan has more than one clip and its last clip is shorter
\* than final_min, the adjustment moves the last clip's start back by exactly
\* final_min - L, not below 0, and leaves its end and every other clip as
\* they were; plan(260, 120, 0, 120, 240) is [(0,120), (120,240), (140,260)]
C23_FinalMinExtension ==
    /\ [][(ppc = "adjust" /\ ppc' = "done" /\ Len(clips) > 1
             /\ final_length(clips) < args.final_min) =>
            /\ Len(clips') = Len(clips)
            /\ clips'[Len(clips)][1] =
                  Max(0, clips[Len(clips)][1] - (args.final_min - final_length(clips)))
            /\ clips'[Len(clips)][2] = clips[Len(clips)][2]
            /\ \A k \in 1..(Len(clips) - 1) : clips'[k] = clips[k]]_vars
    /\ []((ppc = "done" /\ args = Plan260) =>
            clips = <<<<0, 120>>, <<120, 240>>, <<140, 260>>>>)

\* C23 witness: the plan of a source of 260 seconds has been returned
C23_Witness ==
    /\ ppc = "done"
    /\ args = Plan260
    /\ Len(clips) = 3

\* C29: the forward walk stops as soon as an emitted clip has reached the
\* duration: no clip is emitted after a clip whose end equals the duration
C29_WalkStopsAtDuration ==
    \A k \in 1..(Len(clips) - 1) : clips[k][2] < args.duration

\* C30: when the last clip is longer than final_max and the final_min branch
\* did not apply, the adjustment moves its start forward so that its length
\* is exactly final_max, for a lone clip too; in the whole adjustment the
\* last clip's end and every other clip stay as they were
C30_FinalMaxTrim ==
    [][(ppc = "adjust" /\ ppc' = "done") =>
          /\ Len(clips') = Len(clips)
          /\ clips'[Len(clips)][2] = clips[Len(clips)][2]
          /\ \A k \in 1..(Len(clips) - 1) : clips'[k] = clips[k]
          /\ (final_length(clips) > args.final_max
                /\ ~(final_length(clips) < args.final_min /\ Len(clips) > 1)) =>
                final_length(clips') = args.final_max]_vars

\* C30 witness: a lone clip has been trimmed from the front to final_max
C30_Witness ==
    /\ ppc = "done"
    /\ Len(clips) = 1
    /\ args.final_max > 0
    /\ clips[1][1] > 0
    /\ final_length(clips) = args.final_max

\* C24: with randomization on and a range >= 0 the delay of a clip is an
\* integer in [max(0, base - range), max(0, base + range)], and exactly
\* max(0, base) when the range is 0; with randomization off it is
\* max(0, base)
C24_DelayWithinRange ==
    (ppc = "done" /\ args.fn = "publish_after") =>
        /\ (args.randomize_interval /\ args.variation_seconds >= 0) =>
              /\ "value" \in DOMAIN result
              /\ result.value \in
                     Max(0, args.base_seconds - args.variation_seconds)
                         .. Max(0, args.base_seconds + args.variation_seconds)
              /\ (args.variation_seconds = 0) =>
                     result.value = Max(0, args.base_seconds)
        /\ (~args.randomize_interval) =>
              result = Returned(Max(0, args.base_seconds))

\* a randomized delay whose sample was negative and was clamped to 0
C24_Witness ==
    /\ ppc = "done"
    /\ args.fn = "publish_after"
    /\ args.randomize_interval
    /\ args.variation_seconds > 0
    /\ args.base_seconds - args.variation_seconds < 0
    /\ args.base_seconds + args.variation_seconds > 0
    /\ result = Returned(0)

\* the delay a clip counts for in the estimate, as the specification states
\* it: the assigned delay if one was assigned, max(0, base) otherwise
stated_interval(clip, base) ==
    IF clip.assigned THEN clip.publish_after_seconds ELSE Max(0, base)

\* C25: estimate_completion returns absent exactly when the job has no
\* planned clips, and otherwise the formatted total of the clips' assigned
\* delays (an assigned 0 included), max(0, base) standing for a delay not yet
\* assigned; three clips of 60 seconds give "3m"
C25_EstimateOfAssignedDelays ==
    (ppc = "done" /\ args.fn = "estimate_completion") =>
        /\ (result = Returned(None)) <=> (args.clip_plan = <<>>)
        /\ (args.clip_plan /= <<>>) =>
              result = Returned(format_timedelta(sum(
                  [k \in DOMAIN args.clip_plan |->
                      stated_interval(args.clip_plan[k], args.base)])))
        /\ (args = Estimate3x60) => result = Returned("3m")

\* C26: on each axis the overlay coordinate of video_main lies in
\* [min(0, canvas - target), max(0, canvas - target)]; so a target no larger
\* than the canvas lies inside the canvas, and a target no smaller than the
\* canvas covers it
C26_OverlayWithinClamp ==
    (ppc = "done" /\ args.fn = "overlay") =>
        \A axis \in 1..2 :
            LET canvas == IF axis = 1 THEN args.canvas_width ELSE args.canvas_height
                target == IF axis = 1 THEN args.target_width ELSE args.target_height
                overlay == result.value[axis]
            IN /\ Min(0, canvas - target) <= overlay
               /\ overlay <= Max(0, canvas - target)
               /\ (target <= canvas) => (0 <= overlay /\ overlay + target <= canvas)
               /\ (target >= canvas) => (overlay <= 0 /\ overlay + target >= canvas)

\* a layer smaller than the canvas whose anchored position hung over the
\* right edge and was brought back to canvas - target
C26_Witness ==
    /\ ppc = "done"
    /\ args.fn = "overlay"
    /\ args.target_width < args.canvas_width
    /\ raw_overlay(args)[1] > args.canvas_width - args.target_width
    /\ result.value[1] = args.canvas_width - args.target_width

\* C27, as stated: for canvas width 1080, target width 1200 and anchor
\* center at x = 540 the clamped overlay_x is canvas - target = -120
C27_ZoomedCentreAtEdge ==
    (ppc = "done" /\ args = Overlay1080) => result.value[1] = 1080 - 1200

\* C27, amended: that overlay_x is -60, the centred position, which lies in
\* the admitted range [-120, 0] and is left as it is by the clamp
C27_ZoomedCentreKept ==
    (ppc = "done" /\ args = Overlay1080) =>
        /\ result.value[1] = -60
        /\ result.value[1] = raw_overlay(args)[1]
        /\ 1080 - 1200 <= result.value[1]
        /\ result.value[1] <= 0

C27_Witness ==
    /\ ppc = "done"
    /\ args = Overlay1080
    /\ raw_overlay(args) = <<-60, 622>>

\* the horizontal and the vertical component of one of the nine anchors
horizontal(anchor) ==
    IF anchor \in {"left", "topleft", "bottomleft"} THEN "left"
    ELSE IF anchor \in {"right", "topright", "bottomright"} THEN "right"
    ELSE "centre"

vertical(anchor) ==
    IF anchor \in {"top", "topleft", "topright"} THEN "top"
    ELSE IF anchor \in {"bottom", "bottomleft", "bottomright"} THEN "bottom"
    ELSE "middle"

\* C28: for each of the nine anchors the x expression follows the horizontal
\* component alone (value, value - text_w/2, value - text_w) and the y
\* expression the vertical component alone (value, value - text_h/2,
\* value - text_h); the y expression never refers to text_w
C28_TextPositionPerAxis ==
    (ppc = "done" /\ args.fn = "text_position" /\ args.anchor \in Anchors) =>
        LET v == ToString(args.value)
        IN result = Returned(
               IF args.axis = "x"
               THEN CASE horizontal(args.anchor) = "left" -> v
                      [] horizontal(args.anchor) = "centre" -> v \o " - text_w/2"
                      [] horizontal(args.anchor) = "right" -> v \o " - text_w"
               ELSE CASE vertical(args.anchor) = "top" -> v
                      [] vertical(args.anchor) = "middle" -> v \o " - text_h/2"
                      [] vertical(args.anchor) = "bottom" -> v \o " - text_h")

\* C31: in the raw walk clip k (counted from 0) starts at
\* k * (clip_duration - overlap) and ends at min(start + clip_duration,
\* duration), clip_duration floored to 1 and overlap to 0; the plan of a
\* 300 second source with clips of 120 and overlap 10 is (0,120), (110,230),
\* (220,300), the final adjustment changing nothing
C31_RawWalk ==
    /\ (ppc \in {"walk", "adjust"}) =>
           \A k \in 1..Len(clips) :
               /\ clips[k][1] = (k - 1) * (clip_length - clip_overlap)
               /\ clips[k][2] = Min(clips[k][1] + clip_length, args.duration)
    /\ (ppc = "done" /\ args = Plan300) =>
           clips = <<<<0, 120>>, <<110, 230>>, <<220, 300>>>>

C31_Witness ==
    /\ ppc = "adjust"
    /\ args = Plan300
    /\ clips = <<<<0, 120>>, <<110, 230>>, <<220, 300>>>>

\* C36: generate_clip_plan terminates for every input: in every iteration
\* of the walk the start strictly increases, also when overlap >=
\* clip_duration
C36_StartIncreases ==
    [][(ppc = "walk" /\ clips' /= clips) => pstart' > pstart]_vars

\* the offsets the specification tabulates, in half pixels
tabulated_offset(anchor, w, h) ==
    CASE anchor = "center" -> <<-w, -h>>
      [] anchor = "top" -> <<-w, 0>>
      [] anchor = "bottom" -> <<-w, -(2 * h)>>
      [] anchor = "left" -> <<0, -h>>
      [] anchor = "right" -> <<-(2 * w), -h>>
      [] anchor = "topleft" -> <<0, 0>>
      [] anchor = "topright" -> <<-(2 * w), 0>>
      [] anchor = "bottomleft" -> <<0, -(2 * h)>>
      [] anchor = "bottomright" -> <<-(2 * w), -(2 * h)>>

\* C33: for every integer width w and height h the pipeline's _anchor_offset
\* returns the tabulated offset of each of the nine anchors (center
\* (-w/2, -h/2), top (-w/2, 0), ...), and so agrees with the layout
\* editor's _anchor_offset
C33_AnchorOffsetTable ==
    (ppc = "done" /\ args.fn = "anchor_offset" /\ args.anchor \in Anchors) =>
        LET twice == <<2 * result.value[1], 2 * result.value[2]>>
        IN /\ twice = tabulated_offset(args.anchor, args.width, args.height)
           /\ twice = LayoutEditor_anchor_offset(args.anchor, args.width, args.height)

\* C38: submit() puts its job on the queue exactly once, a job is taken from
\* the queue and run through process_job at most once, active_job is the job
\* in process_job and is None while the worker is idle or between jobs, and
\* task_done is called exactly once for each job taken, on the success and
\* on the failure path: the jobs waiting are distinct, were all submitted
\* after the job in process_job, and the count of unfinished tasks is the
\* jobs waiting plus the job in process_job; the queue changes only by one
\* fresh job appended or its head taken, the count only by a submit or by
\* the finally of the job in process_job
C38_QueueBookkeeping ==
    /\ [](/\ unfinished = Len(queue) + (IF active_job = NoJob THEN 0 ELSE 1)
          /\ Processing <=> active_job /= NoJob
          /\ \A k \in 1..Len(queue) :
                /\ queue[k] \in Jobs
                /\ queue[k] > active_job
                /\ \A m \in 1..(k - 1) : queue[m] < queue[k])
    /\ [][LET submitted ==
                 /\ Len(status') = Len(status) + 1
                 /\ queue' = Append(queue, Len(status) + 1)
                 /\ unfinished' = unfinished + 1
                 /\ active_job' = active_job
             taken ==
                 /\ queue /= <<>>
                 /\ active_job = NoJob
                 /\ active_job' = Head(queue)
                 /\ queue' = Tail(queue)
                 /\ unfinished' = unfinished
                 /\ Len(status') = Len(status)
                 /\ wpc' = "process_job"
             finished ==
                 /\ wpc = "finally"
                 /\ active_job /= NoJob
                 /\ active_job' = NoJob
                 /\ unfinished' = unfinished - 1
                 /\ queue' = queue
                 /\ Len(status') = Len(status)
         IN (<<Len(status'), queue', unfinished', active_job'>>
                 /= <<Len(status), queue, unfinished, active_job>>)
                => (submitted \/ taken \/ finished)]_vars

\* C38 witness: the first job failed, its task is done and the worker is
\* between jobs while the second job waits
C38_Witness ==
    /\ wpc = "top"
    /\ active_job = NoJob
    /\ Len(status) = 2
    /\ status[1] = "FAILED"
    /\ queue = <<2>>
    /\ unfinished = 1

\* the worker has just emitted the notice that whisper is missing
WhisperNotice ==
    /\ ui_queue' = Append(ui_queue, [job |-> active_job, stage |-> "PROCESSING",
                                      message |-> "Whisper non disponibile"])
    /\ wpc = "transcribe"

\* C35: a missing transcription capability does not fail the job:
\* transcribe emits one PROCESSING notice and returns without subtitles and
\* without an exception, the job's stage is untouched, and from there the
\* run goes on as after a transcription: its next stage is PUBLISHING, and
\* publishing is left only by writing COMPLETED
C35_TranscriptionOptional ==
    /\ [][WhisperNotice =>
             /\ wpc' = "set_publishing"
             /\ exc' = NoExc
             /\ emitted' = [emitted EXCEPT !["PROCESSING"] = @ + 1]
             /\ status' = status
             /\ error' = error]_vars
    /\ [][(wpc = "set_publishing" /\ wpc' /= wpc) =>
             (wpc' = "emit_publishing" /\ status'[active_job] = "PUBLISHING")]_vars
    /\ [][(wpc \in {"emit_publishing", "publish"} /\ wpc' /= wpc) =>
             \/ wpc' = "publish"
             \/ (wpc' = "emit_completed" /\ status'[active_job] = "COMPLETED")]_vars
    /\ [](wpc \in {"set_publishing", "emit_publishing", "publish", "emit_completed"}
             => exc = NoExc)

\* C35 witness: the notice is out and the job stands before PUBLISHING
C35_Witness ==
    /\ wpc = "set_publishing"
    /\ ui_queue /= <<>>
    /\ ui_queue[Len(ui_queue)].message = "Whisper non disponibile"
    /\ exc = NoExc
    /\ status[active_job] = "PROCESSING"

\* C32: publish_clips handles the clips in strictly increasing index order;
\* publish_after_seconds of a clip is 0 from planning until the loop reaches
\* the clip, is a non-negative integer from before the clip's simulated
\* publication on, and every planned clip has received its delay when the
\* job is marked COMPLETED (render_clips returned one file for each planned
\* clip)
C32_PublishInOrder ==
    /\ [](/\ \A k \in 1..Len(clips) :
                /\ (k > pstart + 1 \/ (k = pstart + 1 /\ ppc \in {"render", "loop", "failed"}))
                        => clips[k] = 0
                /\ (k <= pstart \/ (k = pstart + 1 /\ ppc = "sleep"))
                        => clips[k] \in Nat
          /\ (ppc \in {"loop", "sleep", "completed"}) => result.value = Len(clips)
          /\ (ppc = "completed") => pstart = Len(clips))
    /\ [][/\ pstart' \in {pstart, pstart + 1}
           /\ (pstart' = pstart + 1) => ppc = "sleep"
           /\ \A k \in 1..Len(clips) :
                  (clips'[k] /= clips[k]) => (k = pstart + 1 /\ ppc = "loop")
           /\ Len(clips') = Len(clips)]_vars

\* C32 witness: two clips were planned, both have a delay, the second one
\* different from 0, and the job is COMPLETED
C32_Witness ==
    /\ ppc = "completed"
    /\ Len(clips) = 2
    /\ pstart = 2
    /\ clips[1] = 0
    /\ clips[2] > 0

\* the worker of controller c holds a job: it is between get() and the
\* task_done of its finally
Busy(c) == ctl[c].pc \in {"log", "in_log", "call", "emit_failed", "in_emit", "finally"}

\* C37: for one workspace id at most one worker thread is processing a job
\* at a time, whatever registry calls were made: the worker of a controller
\* that remove(id) stopped is not processing a job while the worker of the
\* controller get_or_create(id) made afterwards processes one
C37_OneWorkerPerId ==
    \A c, d \in Controllers :
        (c /= d /\ ctl[c].ws = ctl[d].ws) => ~(Busy(c) /\ Busy(d))

\* C34: after stop() the worker thread eventually terminates: when the job
\* in flight has come to its finally the worker returns to the head of its
\* loop, and from there, as from an empty poll, it reads the flag and
\* leaves; stop() itself does not wait for that: it returns with the worker
\* where it was, also inside an external call
C34_StopTerminates ==
    /\ stop_event ~> (wpc = "exited")
    /\ [][(stop_event /\ wpc /= wpc') =>
             /\ (wpc = "finally") => wpc' = "top"
             /\ (wpc = "poll" /\ queue = <<>>) => wpc' = "top"
             /\ (wpc = "top") => wpc' = "exited"]_vars
    /\ [][(~stop_event /\ stop_event') => (wpc' = wpc /\ active_job' = active_job)]_vars
    /\ [](~stop_event => ENABLED Stop)

\* C34 witness: stop() has returned while the worker was inside the download
C34_Witness ==
    /\ stop_event
    /\ wpc = "download"
    /\ active_job = 1

====
